---------------------------- MODULE Spec2Model ----------------------------
(***************************************************************************)
(* A model of jpxavier3/TwitterAnalytics: the text normaliser cleaning_txt  *)
(* and the class TwitterAnalytics (constructor, search, analyze,           *)
(* sentiment_analysis) of src/TwitterAnalytics.py, together with the older  *)
(* variant of the same class in src/main.py.                               *)
(*                                                                         *)
(* A Python str is a sequence of characters; a character is a one-letter    *)
(* TLA+ string, or a name for a character TLA+ strings cannot hold.         *)
(***************************************************************************)
EXTENDS Integers, Sequences, FiniteSets, TLC

VARIABLES
    impl,           \* which file's class TwitterAnalytics is in use
    constructed,    \* TRUE once __init__ has returned an object
    lang,           \* self.lang
    tweets_df,      \* self.tweets_df
    tweets,         \* the response of the last search_recent_tweets call
    search_query,   \* the query string of the last search_recent_tweets call
    last_call,      \* the method called last
    raised,         \* the exception the last call raised, "None" if it returned
    returned,       \* what the last call returned
    init_args,      \* the arguments of the last __init__ call
    txt,            \* cleaning_txt: its argument
    txt_upper,      \* cleaning_txt: txt after line 60
    txt_no_rt,      \* cleaning_txt: txt after lines 63-67
    cleaned,        \* cleaning_txt: its return value
    recleaned       \* cleaning_txt applied to its own return value

vars == <<impl, constructed, lang, tweets_df, tweets, search_query, last_call,
          raised, returned, init_args, txt, txt_upper, txt_no_rt, cleaned, recleaned>>

obj_vars == <<impl, constructed, lang, tweets_df, tweets, search_query,
              last_call, raised, returned, init_args>>

txt_vars == <<txt, txt_upper, txt_no_rt, cleaned, recleaned>>

-----------------------------------------------------------------------------
(* Characters.  NBSP is U+00A0, E_ACUTE / e_acute are U+00C9 / U+00E9, CJK  *)
(* is U+5317, BACKSLASH is the backslash.                                   *)

LowerCase ==
    <<"a", "b", "c", "d", "e", "f", "g", "h", "i", "j", "k", "l", "m",
      "n", "o", "p", "q", "r", "s", "t", "u", "v", "w", "x", "y", "z">>

UpperCase ==
    <<"A", "B", "C", "D", "E", "F", "G", "H", "I", "J", "K", "L", "M",
      "N", "O", "P", "Q", "R", "S", "T", "U", "V", "W", "X", "Y", "Z">>

UpperLetters == { UpperCase[i] : i \in 1..26 }

LowerLetters == { LowerCase[i] : i \in 1..26 }

Digits == {"0", "1", "2", "3", "4", "5", "6", "7", "8", "9"}

\* str.isspace(), which is what re's \s and str.strip() go by
Whitespace == {" ", "\t", "\n", "NBSP"}

\* str.upper(), one character at a time
UpperChar(c) ==
    IF c \in LowerLetters
    THEN UpperCase[CHOOSE i \in 1..26 : LowerCase[i] = c]
    ELSE IF c = "e_acute" THEN "E_ACUTE" ELSE c

str_upper(s) == [i \in 1..Len(s) |-> UpperChar(s[i])]

\* unidecode's table: ASCII is kept, anything else becomes ASCII text
UnidecodeChar(c) ==
    CASE c = "E_ACUTE" -> <<"E">>
      [] c = "e_acute" -> <<"e">>
      [] c = "CJK" -> <<"B", "e", "i", " ">>
      [] c = "NBSP" -> <<" ">>
      [] OTHER -> <<c>>

\* unidecode(s): the characters' replacements, joined (the two halves of s
\* are done apart to keep the recursion shallow)
RECURSIVE unidecode(_)
unidecode(s) ==
    IF s = <<>> THEN <<>>
    ELSE IF Len(s) = 1 THEN UnidecodeChar(s[1])
    ELSE LET h == Len(s) \div 2
         IN  unidecode(SubSeq(s, 1, h)) \o unidecode(SubSeq(s, h + 1, Len(s)))

\* s.startswith(sub, i - 1), i counted from 1
StartsAt(s, sub, i) ==
    /\ i + Len(sub) - 1 <= Len(s)
    /\ \A k \in 1..Len(sub) : s[i + k - 1] = sub[k]

\* sub in s
Contains(s, sub) == \E i \in 1..(Len(s) + 1) : StartsAt(s, sub, i)

\* re.search(sub, s).span()[0] + 1 for a literal sub that occurs in s
FirstIndex(s, sub) ==
    CHOOSE i \in 1..(Len(s) + 1) :
        /\ StartsAt(s, sub, i)
        /\ \A j \in 1..(i - 1) : ~StartsAt(s, sub, j)

\* s.replace(old, ''): every non-overlapping occurrence, left to right; an
\* empty old is found between all characters and replacing it by '' changes
\* nothing
RECURSIVE str_remove(_, _)
str_remove(s, old) ==
    IF old = <<>> \/ ~Contains(s, old) THEN s
    ELSE LET i == FirstIndex(s, old)
         IN  SubSeq(s, 1, i - 1) \o str_remove(SubSeq(s, i + Len(old), Len(s)), old)

\* s[pos1:pos2 + 1] for positions counted from 1: empty when pos2 < pos1
Slice(s, p1, p2) == IF p2 < p1 THEN <<>> ELSE SubSeq(s, p1, p2)

RT == <<"R", "T">>

Colon == <<":">>

\* lines 63-67 of cleaning_txt, on the uppercased text
remove_retweet_info(s) ==
    IF Contains(s, RT) /\ Contains(s, Colon)
    THEN LET pos1 == FirstIndex(s, RT)
             pos2 == FirstIndex(s, Colon)
         IN  str_remove(s, Slice(s, pos1, pos2))
    ELSE s

HttpPrefix == <<"H", "T", "T", "P", ":", "/", "/">>

HttpsPrefix == <<"H", "T", "T", "P", "S", ":", "/", "/">>

\* the last index of the run of non-whitespace that starts at i
RunEnd(s, i) ==
    CHOOSE j \in i..Len(s) :
        /\ \A k \in i..j : s[k] \notin Whitespace
        /\ j < Len(s) => s[j + 1] \in Whitespace

\* where a match of HTTP://\S+|HTTPS://\S+ that starts at i ends, 0 if none
LinkEnd(s, i) ==
    IF /\ StartsAt(s, HttpPrefix, i)
       /\ i + Len(HttpPrefix) <= Len(s)
       /\ s[i + Len(HttpPrefix)] \notin Whitespace
    THEN RunEnd(s, i + Len(HttpPrefix))
    ELSE IF /\ StartsAt(s, HttpsPrefix, i)
            /\ i + Len(HttpsPrefix) <= Len(s)
            /\ s[i + Len(HttpsPrefix)] \notin Whitespace
         THEN RunEnd(s, i + Len(HttpsPrefix))
         ELSE 0

\* re.sub('HTTP://\S+|HTTPS://\S+', '', s)
RECURSIVE remove_links(_)
remove_links(s) ==
    IF \A i \in 1..Len(s) : LinkEnd(s, i) = 0 THEN s
    ELSE LET i == CHOOSE i \in 1..Len(s) :
                    /\ LinkEnd(s, i) # 0
                    /\ \A j \in 1..(i - 1) : LinkEnd(s, j) = 0
         IN  SubSeq(s, 1, i - 1) \o remove_links(SubSeq(s, LinkEnd(s, i) + 1, Len(s)))

\* '\W' in a str.replace is the two characters backslash and W
BackslashW == <<"BACKSLASH", "W">>

\* lines 72-75 of cleaning_txt
remove_special(s) ==
    str_remove(str_remove(str_remove(unidecode(s), BackslashW), <<"#">>), <<"\n">>)

\* cleaning_txt, src/TwitterAnalytics.py
cleaning_txt(s) == remove_special(remove_links(remove_retweet_info(str_upper(s))))

-----------------------------------------------------------------------------
(* The arguments cleaning_txt is tried on: every text of up to MaxPieces     *)
(* pieces.                                                                  *)

MaxPieces == 3

Pieces ==
    { <<"R">>, <<"T">>, <<"r", "t">>, <<":">>, <<"#">>, <<"a">>, <<"1">>,
      <<"!">>, <<" ">>, <<"\t">>, <<"\n">>, <<"e_acute">>, <<"CJK">>,
      <<"BACKSLASH">>, <<"W">>,
      <<"h", "t", "t", "p", ":", "/", "/">>,
      <<"h", "t", "t", "p", "s", ":", "/", "/">> }

RECURSIVE Concat(_, _)
Concat(f, n) == IF n = 0 THEN <<>> ELSE Concat(f, n - 1) \o f[n]

\* every text of up to max pieces
Texts(max) == UNION { { Concat(f, n) : f \in [1..n -> Pieces] } : n \in 0..max }

NotYet == <<"NotYet">>

ObjIdle ==
    /\ impl = "TwitterAnalytics.py"
    /\ constructed = FALSE
    /\ lang = "None"
    /\ tweets_df = [kind |-> "None"]
    /\ tweets = [kind |-> "None"]
    /\ search_query = <<>>
    /\ last_call = "None"
    /\ raised = "None"
    /\ returned = [kind |-> "None"]
    /\ init_args = [kind |-> "None"]

InitClean ==
    /\ ObjIdle
    /\ txt \in Texts(MaxPieces)
    /\ txt_upper = NotYet
    /\ txt_no_rt = NotYet
    /\ cleaned = NotYet
    /\ recleaned = NotYet

\* a call cleaning_txt(txt)
CleaningTxt ==
    /\ cleaned = NotYet
    /\ txt_upper' = str_upper(txt)
    /\ txt_no_rt' = remove_retweet_info(str_upper(txt))
    /\ cleaned' = cleaning_txt(txt)
    /\ UNCHANGED <<txt, recleaned>>
    /\ UNCHANGED obj_vars

\* a call cleaning_txt(cleaning_txt(txt))
CleaningTxtAgain ==
    /\ cleaned # NotYet
    /\ recleaned = NotYet
    /\ recleaned' = cleaning_txt(cleaned)
    /\ UNCHANGED <<txt, txt_upper, txt_no_rt, cleaned>>
    /\ UNCHANGED obj_vars

NextClean == CleaningTxt \/ CleaningTxtAgain

SpecClean == InitClean /\ [][NextClean]_vars

-----------------------------------------------------------------------------
(* pandas and Python helpers used by the class.                            *)

Min(a, b) == IF a <= b THEN a ELSE b

\* builtin zip: pairs up to the shorter argument
zip(a, b) == [i \in 1..Min(Len(a), Len(b)) |-> <<a[i], b[i]>>]

\* str.split(' '): the pieces between the spaces (split at the middle space
\* first, to keep the recursion shallow)
RECURSIVE str_split(_)
str_split(s) ==
    LET spaces == { i \in 1..Len(s) : s[i] = " " }
    IN  IF spaces = {} THEN <<s>>
        ELSE LET m == CHOOSE i \in spaces :
                        Cardinality({ j \in spaces : j < i }) = Cardinality(spaces) \div 2
             IN  str_split(SubSeq(s, 1, m - 1)) \o str_split(SubSeq(s, m + 1, Len(s)))

\* str.strip()
str_strip(s) ==
    LET kept == { i \in 1..Len(s) : s[i] \notin Whitespace }
    IN  IF kept = {} THEN <<>>
        ELSE SubSeq(s, CHOOSE i \in kept : \A j \in kept : i <= j,
                       CHOOSE i \in kept : \A j \in kept : j <= i)

\* Series.str.split(' ').explode() over the text column: one token stream
RECURSIVE explode(_)
explode(rows) ==
    IF rows = <<>> THEN <<>>
    ELSE str_split(Head(rows).text) \o explode(Tail(rows))

Range(s) == { s[i] : i \in 1..Len(s) }

\* the number of entries of s equal to w
Count(s, w) == Cardinality({ i \in 1..Len(s) : s[i] = w })

\* groupby(key)[key].count().reset_index(name='Qtd.'): one row per distinct
\* value, with the number of its occurrences
groupby_count(s) == { [key |-> w, Qtd |-> Count(s, w)] : w \in Range(s) }

\* every order of the elements of S
RECURSIVE Orders(_)
Orders(S) ==
    IF S = {} THEN {<<>>}
    ELSE UNION { { <<x>> \o p : p \in Orders(S \ {x}) } : x \in S }

\* sort_values('Qtd.', ascending=False): the default kind is quicksort, which
\* is not stable, so rows of equal Qtd. may come out in any order
RECURSIVE sort_values_desc(_)
sort_values_desc(G) ==
    IF G = {} THEN {<<>>}
    ELSE LET m == CHOOSE q \in { g.Qtd : g \in G } : \A g \in G : g.Qtd <= q
             top == { g \in G : g.Qtd = m }
         IN  { p \o rest : p \in Orders(top), rest \in sort_values_desc(G \ top) }

\* DataFrame.iloc[0:n]
iloc(s, n) == SubSeq(s, 1, Min(n, Len(s)))

\* the rows of a frame with their index labels (a RangeIndex from 0)
indexed(rows) == [i \in 1..Len(rows) |-> [index |-> i - 1, row |-> rows[i]]]

\* Series.max() of a column of a frame that has rows
col_max(vals) == CHOOSE m \in Range(vals) : \A v \in Range(vals) : v <= m

-----------------------------------------------------------------------------
(* The class TwitterAnalytics.                                              *)

Impls == {"TwitterAnalytics.py", "main.py"}

\* __init__: all_langs
all_langs == {"pt", "en"}

\* a constructor that checks nothing
lang_available_unchecked(l) == TRUE

\* __init__: the language is accepted
lang_available(l) == ~(l \notin all_langs /\ l # "None")

\* __init__: the error raised for any other language
KeyErrorLang == "KeyError: Language not avaible. Choose between: ['pt', 'en']"

\* search: the query string
search_expr(hashtag, l) ==
    IF l = "None" THEN <<"#", hashtag>> ELSE <<"#", hashtag, " lang:", l>>

\* search: one row of the frame, from a tweet and the user zip pairs it with
tweet_info(im, tweet, user) ==
    IF im = "TwitterAnalytics.py"
    THEN [created_at |-> tweet.created_at.date,
          text |-> tweet.text,
          lang |-> tweet.lang,
          possibly_sensitive |-> tweet.possibly_sensitive,
          source |-> tweet.source,
          likes |-> tweet.public_metrics.like_count,
          retweets |-> tweet.public_metrics.retweet_count,
          username |-> user.username,
          location |-> user.location,
          verified |-> user.verified,
          description |-> user.description]
    ELSE [created_at |-> tweet.created_at.date,
          text |-> tweet.text,
          lang |-> tweet.lang,
          possibly_sensitive |-> tweet.possibly_sensitive,
          source |-> tweet.source,
          username |-> user.username,
          location |-> user.location,
          verified |-> user.verified,
          description |-> user.description]

\* search: the loop over zip(tweets.data, tweets.includes['users'])
tweet_info_ls(im, response) ==
    LET pairs == zip(response.data, response.users)
    IN  [i \in 1..Len(pairs) |-> tweet_info(im, pairs[i][1], pairs[i][2])]

\* a search that adds its rows to the rows already held
search_tweets_df_appending(im, held, response) ==
    [kind |-> "DataFrame",
     rows |-> (IF held.kind = "DataFrame" THEN held.rows ELSE <<>>)
                \o tweet_info_ls(im, response)]

\* search: the frame assigned to self.tweets_df
search_tweets_df(im, held, response) ==
    [kind |-> "DataFrame", rows |-> tweet_info_ls(im, response)]

\* search: the exception raised after the request, "None" if none is
search_raises(im, response) ==
    IF response.users_missing THEN "KeyError: 'users'"
    ELSE IF response.data_none THEN "TypeError: 'NoneType' object is not iterable"
    ELSE IF tweet_info_ls(im, response) = <<>> THEN "KeyError: 'created_at'"
    ELSE "None"

\* the stopword files (Stopwords/stopwords_en.csv, Stopwords/stopwords_pt.csv):
\* one normalised token per line
stopwords_en == { <<"T", "H", "E">>, <<"A">>, <<"I", "S">> }

stopwords_pt == { <<"D", "E">>, <<"A">>, <<"E">> }

\* analyze: the stopwords of the language selected
stopwords(l) == IF l = "pt" THEN stopwords_pt ELSE stopwords_en

\* regex '\W': what is not a letter, a digit or the underscore
WordChars == UpperLetters \cup LowerLetters \cup Digits \cup {"_"}

IsWordChar(c) == c \in WordChars

\* analyze: the normalisation of one word
normalise(im, w) ==
    IF im = "TwitterAnalytics.py"
    THEN cleaning_txt(w)
    ELSE str_upper(SelectSeq(unidecode(w), IsWordChar))

\* analyze: the column of cleaned words that is grouped and counted
words_counted(im, l, rows) ==
    LET all_text == explode(rows)
        words_cleaned == [i \in 1..Len(all_text) |-> normalise(im, all_text[i])]
        not_stopword(w) == w \notin stopwords(l)
        all_text_filtered == SelectSeq(words_cleaned, not_stopword)
        stripped == [i \in 1..Len(all_text_filtered) |-> str_strip(all_text_filtered[i])]
        not_blank_or_rt(w) == w \notin {<<>>, RT}
    IN  SelectSeq(stripped, not_blank_or_rt)

\* analyze: iloc[0:10]
Top10 == 10

\* a ranking cut one entry short
top_10_short(im, l, rows) ==
    { iloc(qtd, Top10 - 1) : qtd \in sort_values_desc(groupby_count(words_counted(im, l, rows))) }

\* analyze: the outcomes of top_10
top_10(im, l, rows) ==
    { iloc(qtd, Top10) : qtd \in sort_values_desc(groupby_count(words_counted(im, l, rows))) }

NoneText == <<"None">>

\* analyze: the outcomes of location
location(im, rows) ==
    LET notnull == SelectSeq(rows, LAMBDA r : r.location # NoneText)
        locs == [i \in 1..Len(notnull) |->
                    IF im = "TwitterAnalytics.py"
                    THEN cleaning_txt(notnull[i].location)
                    ELSE notnull[i].location]
    IN  sort_values_desc(groupby_count(locs))

\* analyze (main.py): the outcomes of by_user
by_user(rows) ==
    sort_values_desc(groupby_count([i \in 1..Len(rows) |-> rows[i].username]))

\* analyze: tweets_analyze, the columns analyze works on
tweets_analyze(im, rows) ==
    IF im = "TwitterAnalytics.py"
    THEN [i \in 1..Len(rows) |->
            [text |-> rows[i].text, username |-> rows[i].username,
             location |-> rows[i].location, likes |-> rows[i].likes,
             retweets |-> rows[i].retweets, verified |-> rows[i].verified]]
    ELSE rows

\* analyze: verified
verified(im, rows) ==
    LET sel == SelectSeq(indexed(tweets_analyze(im, rows)), LAMBDA r : r.row.verified = TRUE)
    IN  IF im = "TwitterAnalytics.py" THEN sel
        ELSE [i \in 1..Len(sel) |->
                [index |-> sel[i].index,
                 row |-> [username |-> sel[i].row.username, text |-> sel[i].row.text]]]

\* the last of the most liked posts instead of the first
most_liked_last(rows) ==
    IF rows = <<>> THEN <<>>
    ELSE LET ta == tweets_analyze("TwitterAnalytics.py", rows)
             max == col_max([i \in 1..Len(ta) |-> ta[i].likes])
             sel == SelectSeq(indexed(ta), LAMBDA r : r.row.likes = max)
         IN  SubSeq(sel, Len(sel), Len(sel))

\* analyze: most_liked
most_liked(rows) ==
    IF rows = <<>> THEN <<>>
    ELSE LET ta == tweets_analyze("TwitterAnalytics.py", rows)
             max == col_max([i \in 1..Len(ta) |-> ta[i].likes])
         IN  iloc(SelectSeq(indexed(ta), LAMBDA r : r.row.likes = max), 1)

\* analyze: most_retweets
most_retweets(rows) ==
    IF rows = <<>> THEN <<>>
    ELSE LET ta == tweets_analyze("TwitterAnalytics.py", rows)
             max == col_max([i \in 1..Len(ta) |-> ta[i].retweets])
         IN  iloc(SelectSeq(indexed(ta), LAMBDA r : r.row.retweets = max), 1)

\* analyze: self.tweets_df once analyze has run
analyze_tweets_df(held) == held

\* sentiment_analysis: self.tweets_df once sentiment_analysis has run
sentiment_tweets_df(held) == held

\* translate: googletrans is an outside service; its answer is kept opaque
translate(s, l) == <<"translated from ", l, ": ">> \o s

\* sentiment_analysis: the column text_sentiment
text_sentiment(l, rows) ==
    [i \in 1..Len(rows) |->
        IF l # "en" THEN translate(cleaning_txt(rows[i].text), l)
        ELSE cleaning_txt(rows[i].text)]

\* sentiment_polarity: TextBlob's polarity, a float in [-1.0, 1.0]
Polarities == {-1, 1}

\* sentiment_analysis: the frame returned
sentiment_df(l, rows, polarity) ==
    [i \in 1..Len(rows) |->
        [index |-> i - 1,
         row |-> [text |-> rows[i].text, username |-> rows[i].username,
                  text_sentiment |-> text_sentiment(l, rows)[i],
                  SENTIMENT |-> polarity[i]]]]

-----------------------------------------------------------------------------
(* The posts and authors the search service answers with.                   *)

\* the words of ws with one space between them
RECURSIVE Join(_)
Join(ws) ==
    IF Len(ws) = 0 THEN <<>>
    ELSE IF Len(ws) = 1 THEN ws[1]
    ELSE ws[1] \o <<" ">> \o Join(Tail(ws))

\* n times the word w
Times(w, n) == [i \in 1..n |-> w]

Users ==
    [u1 |-> [id |-> 1, username |-> "ana", location |-> <<"S", "P">>,
             verified |-> TRUE, description |-> "dev"],
     u2 |-> [id |-> 2, username |-> "bob", location |-> NoneText,
             verified |-> FALSE, description |-> "fan"],
     u3 |-> [id |-> 3, username |-> "cy", location |-> <<"s", "p">>,
             verified |-> FALSE, description |-> "bot"]]

Tweet(text, likes, rts, author) ==
    [created_at |-> [date |-> "2022-05-01", time |-> "10:00"],
     text |-> text, lang |-> "en", possibly_sensitive |-> FALSE,
     source |-> "web",
     public_metrics |-> [like_count |-> likes, retweet_count |-> rts],
     author_id |-> author]

\* "RT @bob: a cat http://t.co/x"
Text1 ==
    Join(<< <<"R", "T">>, <<"@", "b", "o", "b", ":">>, <<"a">>,
            <<"c", "a", "t">>,
            <<"h", "t", "t", "p", ":", "/", "/", "t", ".", "c", "o", "/", "x">> >>)

\* "dog dog cat cat a<TAB> de de de the the the the"
Text2 ==
    Join(<< <<"d", "o", "g">>, <<"d", "o", "g">>, <<"c", "a", "t">>,
            <<"c", "a", "t">>, <<"a", "\t">> >>
         \o Times(<<"d", "e">>, 3) \o Times(<<"t", "h", "e">>, 4))

\* eleven different one-letter words: l ten times, k nine times, down to d
\* twice, then c and b once each
Words4 ==
    Times("l", 10) \o Times("k", 9) \o Times("j", 8) \o Times("i", 7)
    \o Times("h", 6) \o Times("g", 5) \o Times("f", 4) \o Times("e", 3)
    \o Times("d", 2) \o <<"c", "b">>

Text4 ==
    [i \in 1..(2 * Len(Words4) - 1) |->
        IF i % 2 = 1 THEN Words4[(i + 1) \div 2] ELSE " "]

SampleTweets ==
    { Tweet(Text1, 5, 5, 1), Tweet(Text2, 2, 7, 1), Tweet(Text4, 5, 5, 3) }

UserById(a) == CHOOSE u \in { Users.u1, Users.u2, Users.u3 } : u.id = a

\* the largest number of posts one response holds (max_results)
MaxResults == 2

Injective(f) == \A i, j \in DOMAIN f : f[i] = f[j] => i = j

\* includes.users of a response that holds the posts d: every author of one
\* of them once, in the order the authors first appear
includes_users(d) ==
    LET firsts == { i \in 1..Len(d) :
                      \A j \in 1..(i - 1) : d[j].author_id # d[i].author_id }
    IN  [k \in 1..Cardinality(firsts) |->
            UserById(d[CHOOSE i \in firsts :
                          Cardinality({ j \in firsts : j < i }) = k - 1].author_id)]

\* responses that hold posts
FullResponses ==
    { [kind |-> "Response", failed |-> FALSE, data_none |-> FALSE, data |-> d,
       users_missing |-> FALSE, users |-> includes_users(d)]
      : d \in UNION { { f \in [1..n -> SampleTweets] : Injective(f) }
                      : n \in 1..MaxResults } }

\* responses to a search that matched nothing: tweepy gives data = None and
\* no 'users' under includes; an empty list of each is the other shape
EmptyResponses ==
    { [kind |-> "Response", failed |-> FALSE, data_none |-> TRUE, data |-> <<>>,
       users_missing |-> TRUE, users |-> <<>>],
      [kind |-> "Response", failed |-> FALSE, data_none |-> FALSE, data |-> <<>>,
       users_missing |-> FALSE, users |-> <<>>] }

\* the request itself failing (network, credentials)
FailedResponse ==
    [kind |-> "Response", failed |-> TRUE, data_none |-> TRUE, data |-> <<>>,
     users_missing |-> TRUE, users |-> <<>>]

Responses == FullResponses \cup EmptyResponses \cup {FailedResponse}

Hashtags == {"python"}

LangArgs == {"None", "pt", "en", "fr"}

NoneDF == [kind |-> "None"]

\* a frame handed to the constructor
SeedDF(im) ==
    [kind |-> "DataFrame",
     rows |-> << tweet_info(im, Tweet(<<"s", "e", "e", "d">>, 1, 1, 2), Users.u2) >>]

-----------------------------------------------------------------------------
(* The calls.                                                               *)

Init ==
    /\ impl \in Impls
    /\ constructed = FALSE
    /\ lang = "None"
    /\ tweets_df = NoneDF
    /\ tweets = [kind |-> "None"]
    /\ search_query = <<>>
    /\ last_call = "None"
    /\ raised = "None"
    /\ returned = [kind |-> "None"]
    /\ init_args = [kind |-> "None"]
    /\ txt = <<>>
    /\ txt_upper = NotYet
    /\ txt_no_rt = NotYet
    /\ cleaned = NotYet
    /\ recleaned = NotYet

\* TwitterAnalytics(lang=l, tweets_df=df)
__init__(l, df) ==
    /\ ~constructed
    /\ last_call' = "__init__"
    /\ init_args' = [lang |-> l, tweets_df |-> df]
    /\ returned' = [kind |-> "None"]
    /\ IF lang_available(l)
       THEN /\ lang' = l
            /\ tweets_df' = df
            /\ constructed' = TRUE
            /\ raised' = "None"
       ELSE /\ raised' = KeyErrorLang
            /\ UNCHANGED <<lang, tweets_df, constructed>>
    /\ UNCHANGED <<impl, tweets, search_query>>
    /\ UNCHANGED txt_vars

\* self.search(token, hashtag), the service answering with response
search(hashtag, response) ==
    /\ constructed
    /\ last_call' = "search"
    /\ search_query' = search_expr(hashtag, lang)
    /\ tweets' = response
    /\ IF response.failed
       THEN /\ raised' = "TweepyException"
            /\ returned' = [kind |-> "None"]
            /\ UNCHANGED tweets_df
       ELSE IF search_raises(impl, response) # "None"
       THEN /\ raised' = search_raises(impl, response)
            /\ returned' = [kind |-> "None"]
            /\ UNCHANGED tweets_df
       ELSE /\ raised' = "None"
            /\ tweets_df' = search_tweets_df(impl, tweets_df, response)
            /\ returned' = tweets_df'
    /\ UNCHANGED <<impl, constructed, lang, init_args>>
    /\ UNCHANGED txt_vars

\* self.analyze()
analyze ==
    /\ constructed
    /\ last_call' = "analyze"
    /\ IF tweets_df.kind = "None"
       THEN /\ raised' = "TypeError: 'NoneType' object is not subscriptable"
            /\ returned' = [kind |-> "None"]
            /\ UNCHANGED tweets_df
       ELSE /\ raised' = "None"
            /\ tweets_df' = analyze_tweets_df(tweets_df)
            /\ \E t \in top_10(impl, lang, tweets_df.rows),
                  loc \in location(impl, tweets_df.rows) :
                 IF impl = "TwitterAnalytics.py"
                 THEN returned' =
                        [kind |-> "analyze",
                         top_10 |-> t,
                         location |-> loc,
                         verified |-> verified(impl, tweets_df.rows),
                         most_liked |-> most_liked(tweets_df.rows),
                         most_retweets |-> most_retweets(tweets_df.rows)]
                 ELSE \E bu \in by_user(tweets_df.rows) :
                        returned' =
                          [kind |-> "analyze",
                           top_10 |-> t,
                           verified |-> verified(impl, tweets_df.rows),
                           location |-> loc,
                           by_user |-> bu]
    /\ UNCHANGED <<impl, constructed, lang, tweets, search_query, init_args>>
    /\ UNCHANGED txt_vars

\* self.sentiment_analysis(); translated says whether the translation
\* service answered
sentiment_analysis(translated) ==
    /\ constructed
    /\ impl = "TwitterAnalytics.py"
    /\ last_call' = "sentiment_analysis"
    /\ IF tweets_df.kind = "None"
       THEN /\ raised' = "TypeError: 'NoneType' object is not subscriptable"
            /\ returned' = [kind |-> "None"]
            /\ UNCHANGED tweets_df
       ELSE IF lang # "en" /\ tweets_df.rows # <<>> /\ ~translated
       THEN /\ raised' = "translate: Exception"
            /\ returned' = [kind |-> "None"]
            /\ UNCHANGED tweets_df
       ELSE /\ raised' = "None"
            /\ tweets_df' = sentiment_tweets_df(tweets_df)
            /\ \E polarity \in [1..Len(tweets_df.rows) -> Polarities] :
                 returned' =
                   [kind |-> "sentiment_analysis",
                    rows |-> sentiment_df(lang, tweets_df.rows, polarity)]
    /\ UNCHANGED <<impl, constructed, lang, tweets, search_query, init_args>>
    /\ UNCHANGED txt_vars

Next ==
    \/ \E l \in LangArgs, df \in {NoneDF, SeedDF(impl)} : __init__(l, df)
    \/ \E h \in Hashtags, r \in Responses : search(h, r)
    \/ analyze
    \/ \E translated \in BOOLEAN : sentiment_analysis(translated)

Spec == Init /\ [][Next]_vars

-----------------------------------------------------------------------------
(* The claims.                                                              *)

Permitted == all_langs \cup {"None"}

AnalyzeReturned == returned.kind = "analyze"

SearchReturned == last_call = "search" /\ raised = "None"

\* C1: no word of the ranking analyze returns is the empty string, "RT", or
\* a stopword of the language selected, the words taken as they are counted.
C1_NoStopwordInRanking ==
    AnalyzeReturned =>
        \A i \in 1..Len(returned.top_10) :
            returned.top_10[i].key \notin ({<<>>, RT} \cup stopwords(lang))

\* C2: what cleaning_txt returns holds only uppercase letters and digits, or
\* is empty.
C2_OnlyUpperAlnum ==
    cleaned # NotYet =>
        \A i \in 1..Len(cleaned) : cleaned[i] \in UpperLetters \cup Digits

\* C3: cleaning_txt is idempotent: cleaning what it returned returns the same.
C3_Idempotent == recleaned # NotYet => recleaned = cleaned

\* the first colon of s after position p, 0 if there is none
ColonAfter(s, p) ==
    IF \E i \in (p + 1)..Len(s) : s[i] = ":"
    THEN CHOOSE i \in (p + 1)..Len(s) :
            s[i] = ":" /\ \A j \in (p + 1)..(i - 1) : s[j] # ":"
    ELSE 0

\* C10: the repost-marker step removes exactly the text from the first "RT"
\* through the first colon after it and keeps the rest in order; without a
\* marker it changes nothing.
C10_MarkerThroughNextColon ==
    txt_no_rt # NotYet =>
        /\ ~Contains(txt_upper, RT) => txt_no_rt = txt_upper
        /\ (Contains(txt_upper, RT)
              /\ ColonAfter(txt_upper, FirstIndex(txt_upper, RT)) # 0) =>
             LET p1 == FirstIndex(txt_upper, RT)
                 p2 == ColonAfter(txt_upper, p1)
             IN  txt_no_rt = SubSeq(txt_upper, 1, p1 - 1)
                               \o SubSeq(txt_upper, p2 + 1, Len(txt_upper))

\* C4: a language outside ['pt', 'en'] (and not None) makes the constructor
\* raise the error that names ['pt', 'en'] and leaves no object, so no search
\* request is ever issued under such a language.
C4_BadLangFailsBeforeRequest ==
    /\ (last_call = "__init__" /\ init_args.lang \notin Permitted) =>
          raised = KeyErrorLang /\ ~constructed /\ search_query = <<>>
    /\ search_query # <<>> => constructed /\ lang \in Permitted
    /\ constructed => lang \in Permitted

\* C4's case: the constructor was given 'fr' and raised.
C4_Witness ==
    last_call = "__init__" /\ init_args.lang = "fr" /\ raised = KeyErrorLang

IsEmptyResponse(r) == r.kind = "Response" /\ ~r.failed /\ r.data = <<>>

\* C5: when a search matched no posts, search returns, the analyze call after
\* it returns, and every view analyze returns is empty.
C5_EmptyResultIsNoError ==
    IsEmptyResponse(tweets) =>
        /\ last_call = "search" =>
              raised = "None" /\ tweets_df.kind = "DataFrame" /\ tweets_df.rows = <<>>
        /\ last_call = "analyze" =>
              /\ raised = "None"
              /\ returned.top_10 = <<>>
              /\ returned.location = <<>>
              /\ returned.verified = <<>>
              /\ impl = "TwitterAnalytics.py" =>
                    returned.most_liked = <<>> /\ returned.most_retweets = <<>>

\* sel is one row of rows: the first of those whose value in vals is largest
FirstOfMax(sel, rows, vals) ==
    /\ Len(sel) = 1
    /\ sel[1].index + 1 \in 1..Len(rows)
    /\ sel[1].row.text = rows[sel[1].index + 1].text
    /\ sel[1].row.username = rows[sel[1].index + 1].username
    /\ \A i \in 1..Len(rows) : vals[i] <= vals[sel[1].index + 1]
    /\ \A i \in 1..sel[1].index : vals[i] < vals[sel[1].index + 1]

\* C6: of a collection that has posts, analyze returns exactly one post as
\* most liked and one as most retweeted: a post with the largest count, and
\* the first of them in the collection's order.
C6_OneFirstMaximum ==
    (AnalyzeReturned /\ impl = "TwitterAnalytics.py" /\ tweets_df.rows # <<>>) =>
        LET rows == tweets_df.rows
        IN  /\ FirstOfMax(returned.most_liked, rows,
                          [i \in 1..Len(rows) |-> rows[i].likes])
            /\ returned.most_liked[1].row.likes = rows[returned.most_liked[1].index + 1].likes
            /\ FirstOfMax(returned.most_retweets, rows,
                          [i \in 1..Len(rows) |-> rows[i].retweets])
            /\ returned.most_retweets[1].row.retweets
                 = rows[returned.most_retweets[1].index + 1].retweets

\* C6's case: analyze has returned for two posts that tie for the most likes.
C6_Witness ==
    /\ AnalyzeReturned /\ impl = "TwitterAnalytics.py"
    /\ Len(tweets_df.rows) = 2
    /\ tweets_df.rows[1].likes = tweets_df.rows[2].likes
    /\ tweets_df.rows[1].text # tweets_df.rows[2].text

\* the surviving tokens of the held collection, as analyze counts them
Surviving == words_counted(impl, lang, tweets_df.rows)

\* where w is first met in the token stream sv
FirstSeen(sv, w) == CHOOSE i \in 1..Len(sv) :
                        sv[i] = w /\ \A j \in 1..(i - 1) : sv[j] # w

\* r holds different words of the token stream sv, each with the number of
\* its tokens, as many as there are up to ten
RankingCounts(r, sv) ==
    /\ Len(r) = Min(Top10, Cardinality(Range(sv)))
    /\ \A i \in 1..Len(r) :
          r[i].key \in Range(sv) /\ r[i].Qtd = Count(sv, r[i].key)
    /\ \A i, j \in 1..Len(r) : r[i].key = r[j].key => i = j

\* C7 as stated: the ranking is the first ten of the surviving words by count
\* descending, words of equal count in the order they are first met.
C7_TiesByFirstSeen ==
    AnalyzeReturned =>
        LET r == returned.top_10
            sv == Surviving
            Before(a, b) ==
                \/ a.Qtd > b.Qtd
                \/ a.Qtd = b.Qtd /\ FirstSeen(sv, a.key) < FirstSeen(sv, b.key)
        IN  /\ RankingCounts(r, sv)
            /\ \A i, j \in 1..Len(r) : i < j => Before(r[i], r[j])
            /\ \A w \in Range(sv) \ { r[i].key : i \in 1..Len(r) } :
                  \A i \in 1..Len(r) : Before(r[i], [key |-> w, Qtd |-> Count(sv, w)])

\* C7 amended: the ranking is the first ten (fewer when fewer survive) of the
\* different surviving words in an order of non-increasing count, each with
\* the number of surviving tokens equal to it; no word left out has more
\* tokens than a ranked word; words of equal count come in no fixed order.
C7_RankingByCount ==
    AnalyzeReturned =>
        LET r == returned.top_10
            sv == Surviving
        IN  /\ RankingCounts(r, sv)
            /\ \A i, j \in 1..Len(r) : i < j => r[i].Qtd >= r[j].Qtd
            /\ \A w \in Range(sv) \ { r[i].key : i \in 1..Len(r) } :
                  \A i \in 1..Len(r) : r[i].Qtd >= Count(sv, w)

\* C7's case: more than ten different words survive, and two ranked words
\* have equal counts.
C7_Witness ==
    /\ AnalyzeReturned
    /\ Len(returned.top_10) = Top10
    /\ Cardinality(Range(Surviving)) > Top10
    /\ \E i \in 1..(Top10 - 1) : returned.top_10[i].Qtd = returned.top_10[i + 1].Qtd

\* C8: search builds one post per returned item, with the author fields of
\* the author of that item.
C8_OnePostPerItemWithItsAuthor ==
    SearchReturned =>
        /\ Len(tweets_df.rows) = Len(tweets.data)
        /\ \A i \in 1..Min(Len(tweets_df.rows), Len(tweets.data)) :
              LET u == UserById(tweets.data[i].author_id)
                  row == tweets_df.rows[i]
              IN  /\ row.text = tweets.data[i].text
                  /\ row.username = u.username
                  /\ row.location = u.location
                  /\ row.verified = u.verified
                  /\ row.description = u.description

\* C9: a search that returns leaves exactly the rows built from its response,
\* none carried over; a search that raises, analyze and sentiment_analysis
\* leave the held collection as it was.
C9_SearchReplacesOthersKeep ==
    [][ /\ (last_call' = "search" /\ raised' = "None") =>
              /\ tweets_df'.kind = "DataFrame"
              /\ tweets_df'.rows = tweet_info_ls(impl, tweets')
              /\ Len(tweets_df'.rows) <= Len(tweets'.data)
        /\ (last_call' = "search" /\ raised' # "None") => tweets_df' = tweets_df
        /\ last_call' \in {"analyze", "sentiment_analysis"} => tweets_df' = tweets_df
      ]_vars

\* C9's case: the object was built holding a collection, and a search has
\* since returned and replaced it.
C9_Witness ==
    /\ SearchReturned
    /\ init_args.tweets_df.kind = "DataFrame"
    /\ tweets_df # init_args.tweets_df

=============================================================================
